---- MODULE Spec2Model ----
(***************************************************************************)
(* A model of the autovate repository: the diff-hunk parser and the scope  *)
(* resolvers of git_module.py, the declaration scanners of langraph.py and *)
(* the documentation pipeline of app/docgen.py.                            *)
(***************************************************************************)
EXTENDS Integers, Sequences, FiniteSets, TLC

VARIABLES
    pc,         \* position of the git_module script
    lines,      \* parse_patch_for_changes: patch_text.splitlines()
    i,          \* parse_patch_for_changes: index of the next line (1-based)
    in_hunk,    \* parse_patch_for_changes: control is inside the inner while
    old_line,   \* parse_patch_for_changes: old-axis counter
    new_line,   \* parse_patch_for_changes: new-axis counter
    changes,    \* parse_patch_for_changes: the records emitted so far
    source_text,    \* resolver call: the file text, as lines
    target_lineno,  \* resolver call: the line asked about
    py_chain,       \* what find_enclosing_python_chain returned
    rx_chain,       \* what find_enclosing_by_regex returned
    repo_files,     \* what repo.git.show gives for each path and revision
    diff,           \* the diff the for loop is at: its a_path and b_path
    ndiffs,         \* how many diffs the for loop has taken
    all_rag_contexts,   \* the ContextEntry records collected so far
    combined_prompt,    \* the numbered blocks of the aggregated prompt
    tree,           \* the repository's files: path -> text, as lines
    options,        \* generate_documentation: the DocOptions of the run
    files_data,     \* generate_documentation: the scanned files, in order
    llm_docs,       \* generate_documentation: the generated texts
    rendered,       \* generate_documentation: the per-file documents, in order
    docs_out,       \* the files under docs/: path -> content
    index,          \* the paths under docs/ that git tracks
    head,           \* how many commits the repository has (0: no valid HEAD)
    history,        \* docs/history.json
    result,         \* what the latest generate_documentation returned
    environment,    \* what the environment of the latest invocation did
    runs            \* how many invocations have been made

parseVars == <<lines, i, in_hunk, old_line, new_line, changes>>
scopeVars == <<source_text, target_lineno, py_chain, rx_chain>>
aggVars == <<repo_files, diff, ndiffs, all_rag_contexts, combined_prompt>>
scanVars == <<tree, options, files_data, llm_docs, rendered>>
docVars == <<docs_out, index, head, history, result, environment, runs>>
vars == <<pc, lines, i, in_hunk, old_line, new_line, changes,
          source_text, target_lineno, py_chain, rx_chain,
          repo_files, diff, ndiffs, all_rag_contexts, combined_prompt,
          tree, options, files_data, llm_docs, rendered,
          docs_out, index, head, history, result, environment, runs>>

(***************************************************************************)
(* Bounds                                                                  *)
(***************************************************************************)
MaxPatchLen == 4

(***************************************************************************)
(* Patch lines.  A line of a unified diff is kept by what the parser reads *)
(* of it: whether hunk_re matches it (and then the two start numbers),     *)
(* whether it starts with "@@ ", "+", "+++", "-", "---".                   *)
(*   hunk   "@@ -o[,n] +n[,m] @@..."   atat  "@@ ..." that hunk_re rejects  *)
(*   add    "+..." but not "+++..."    plus3 "+++..."                      *)
(*   del    "-..." but not "---..."    minus3 "---..."                     *)
(*   ctx    any other line (context, blank, "\ No newline", "diff --git")  *)
(***************************************************************************)
HunkLine(o, n) == [k |-> "hunk", o |-> o, n |-> n]
PlainLine(k) == [k |-> k, o |-> 0, n |-> 0]

ParseHeaders == {HunkLine(5, 5), HunkLine(1, 2)}
PlainLines == {PlainLine(k) : k \in {"add", "del", "ctx", "plus3", "minus3", "atat"}}
ParseAlphabet == ParseHeaders \cup PlainLines

SeqsUpTo(S, n) == UNION {[1..m -> S] : m \in 0..n}

\* hunk_re.match(l)
HunkMatch(l) == l.k = "hunk"
StartsAtAt_Never(l) == FALSE
\* l.startswith('@@ ')
StartsAtAt(l) == l.k \in {"hunk", "atat"}
\* l.startswith('+') and not l.startswith('+++')
IsAddition(l) == l.k = "add"
\* l.startswith('-') and not l.startswith('---')
IsDeletion(l) == l.k = "del"

ChangeRecord(t, n) == [type |-> t, lineno |-> n]

\* the records the inner loop appends for line l
Emitted(l, old, new) ==
    IF IsAddition(l) THEN <<ChangeRecord("add", new)>>
    ELSE IF IsDeletion(l) THEN <<ChangeRecord("del", old)>>
    ELSE <<>>

OldAfter_DelOnly(l, old) == IF IsDeletion(l) THEN old + 1 ELSE old
\* old_line after the inner loop has read line l
OldAfter(l, old) == IF IsAddition(l) THEN old ELSE old + 1

NewAfter_Both(l, new) == new + 1
\* new_line after the inner loop has read line l
NewAfter(l, new) == IF IsDeletion(l) THEN new ELSE new + 1

InInner_NoHeader == i <= Len(lines) /\ ~StartsAtAt(lines[i])
\* the condition of the inner while loop
InInner == in_hunk /\ i <= Len(lines) /\ ~StartsAtAt(lines[i])

\* one iteration of the outer while loop up to the inner loop's entry
ScanLine ==
    /\ pc = "parse"
    /\ ~InInner
    /\ i <= Len(lines)
    /\ IF HunkMatch(lines[i])
         THEN /\ old_line' = lines[i].o
              /\ new_line' = lines[i].n
              /\ in_hunk' = TRUE
         ELSE /\ in_hunk' = FALSE
              /\ UNCHANGED <<old_line, new_line>>
    /\ i' = i + 1
    /\ UNCHANGED <<pc, lines, changes>>
    /\ UNCHANGED <<scopeVars, aggVars, scanVars, docVars>>

\* one iteration of the inner while loop
PayloadLine ==
    /\ pc = "parse"
    /\ InInner
    /\ changes' = changes \o Emitted(lines[i], old_line, new_line)
    /\ old_line' = OldAfter(lines[i], old_line)
    /\ new_line' = NewAfter(lines[i], new_line)
    /\ i' = i + 1
    /\ UNCHANGED <<pc, lines, in_hunk>>
    /\ UNCHANGED <<scopeVars, aggVars, scanVars, docVars>>

\* return changes
ParseReturn ==
    /\ pc = "parse"
    /\ i > Len(lines)
    /\ pc' = "changes"
    /\ UNCHANGED parseVars
    /\ UNCHANGED <<scopeVars, aggVars, scanVars, docVars>>

ParseIdle ==
    /\ i = 1
    /\ in_hunk = FALSE
    /\ old_line = 0
    /\ new_line = 0
    /\ changes = <<>>

(***************************************************************************)
(* Source files.  A file text is the sequence of its lines; a line is kept *)
(* by what the parsers and the regular expressions read of it: its kind,   *)
(* its indentation (in levels) and, for a declaration, its name.           *)
(*   def    "def NAME(...):"            class  "class NAME..."             *)
(*   async  "async def NAME(...):"      if     a compound statement header *)
(*   stmt   a simple statement          function "function NAME(...) {"    *)
(***************************************************************************)
SrcLine(k, ind, name) == [k |-> k, ind |-> ind, name |-> name]

MaxFileLen == 3
Indents == {0, 1, 2}

NameAt == <<"A", "b", "c", "d", "e", "f", "g">>
ScopeKinds == {"def", "class", "if", "stmt"}
PyKinds == {"def", "class", "async", "if", "stmt", "docstr"}
PyDeclKinds == {"def", "class", "async"}
PyOpeners == {"def", "class", "async", "if"}

\* the files of m lines whose line kinds come from kinds
FilesOfLen(kinds, m) ==
    {[j \in 1..m |-> SrcLine(s[j][1], s[j][2],
                             IF s[j][1] \in {"stmt", "if"} THEN "" ELSE NameAt[j])] :
        s \in [1..m -> kinds \X Indents]}
FilesUpTo(kinds, n) == UNION {FilesOfLen(kinds, m) : m \in 0..n}

\* class A on lines 1-10 containing def b on lines 3-5, then two module lines
ExampleFile ==
    [j \in 1..12 |->
        IF j = 1 THEN SrcLine("class", 0, "A")
        ELSE IF j = 3 THEN SrcLine("def", 1, "b")
        ELSE IF j \in {4, 5} THEN SrcLine("stmt", 2, "")
        ELSE IF j \in {2, 6, 7, 8, 9, 10} THEN SrcLine("stmt", 1, "")
        ELSE SrcLine("stmt", 0, "")]

\* class A holding an if block that holds def c, then a module line
NestedIfFile ==
    <<SrcLine("class", 0, "A"), SrcLine("if", 1, ""), SrcLine("def", 2, "c"),
      SrcLine("stmt", 3, ""), SrcLine("stmt", 1, ""), SrcLine("stmt", 0, "")>>

\* a class with an async method
AsyncFile ==
    <<SrcLine("class", 0, "A"), SrcLine("async", 1, "b"), SrcLine("stmt", 2, ""),
      SrcLine("stmt", 0, "")>>

\* a JavaScript file: function g on lines 1-2, line 3 at top level
FunctionFile ==
    <<SrcLine("function", 0, "g"), SrcLine("stmt", 1, ""), SrcLine("stmt", 0, "")>>

(***************************************************************************)
(* ast.parse, restricted to the line kinds above: the block structure of   *)
(* a Python file follows from its indentation.                             *)
(***************************************************************************)
\* the prefix of the indentation stack S that ends with d
PopTo(S, d) == SubSeq(S, 1, CHOOSE j \in 1..Len(S) : S[j] = d)

RECURSIVE IndentStack(_, _)
\* the open block indentations after line n of f; <<>> once a line is rejected
IndentStack(f, n) ==
    IF n = 0 THEN <<0>>
    ELSE LET S == IndentStack(f, n - 1)
             d == f[n].ind
         IN  IF S = <<>> \/ f[n].k \notin PyKinds THEN <<>>
             ELSE IF n > 1 /\ f[n - 1].k \in PyOpeners
                  THEN IF d > S[Len(S)] THEN Append(S, d) ELSE <<>>
             ELSE IF \E j \in 1..Len(S) : S[j] = d THEN PopTo(S, d)
             ELSE <<>>

\* ast.parse(source_text) returns a tree (does not raise)
AstParses(f) ==
    /\ IndentStack(f, Len(f)) # <<>>
    /\ Len(f) = 0 \/ f[Len(f)].k \notin PyOpeners

\* node.end_lineno of the statement that starts on line n
EndLineno(f, n) ==
    CHOOSE e \in n..Len(f) :
        /\ \A m \in (n + 1)..e : f[m].ind > f[n].ind
        /\ e = Len(f) \/ f[e + 1].ind <= f[n].ind

\* the line of the statement whose body holds line n; 0 for the Module
ParentLine(f, n) ==
    IF \E p \in 1..(n - 1) : f[p].ind < f[n].ind
    THEN CHOOSE p \in 1..(n - 1) :
            /\ f[p].ind < f[n].ind
            /\ \A q \in (p + 1)..(n - 1) : f[q].ind >= f[n].ind
    ELSE 0

\* "{kind} {name}"
Token(kind, name) == <<kind, name>>

Reverse(s) == [j \in 1..Len(s) |-> s[Len(s) + 1 - j]]

NoneChain == [none |-> TRUE, chain |-> <<>>]
SomeChain(c) == [none |-> FALSE, chain |-> c]

RECURSIVE ChainUpward(_, _)
\* the while loop of find_enclosing_python_chain: the tokens from node n up
ChainUpward(f, n) ==
    IF n = 0 THEN <<>>
    ELSE (IF f[n].k = "class" THEN <<Token("class", f[n].name)>>
          ELSE IF f[n].k \in {"def", "async"} THEN <<Token("def", f[n].name)>>
          ELSE <<>>)
         \o ChainUpward(f, ParentLine(f, n))

\* the candidate nodes of find_enclosing_python_chain
Candidates(f, t) ==
    {n \in 1..Len(f) : f[n].k \in PyDeclKinds /\ n <= t /\ t <= EndLineno(f, n)}

\* key a < key b, for the key (lineno, end_lineno - lineno)
KeyLess(f, a, b) ==
    \/ a < b
    \/ a = b /\ EndLineno(f, a) - a < EndLineno(f, b) - b

Innermost_Widest(f, c) ==
    CHOOSE n \in c : \A m \in c : EndLineno(f, m) - m <= EndLineno(f, n) - n
Innermost_First(f, c) == CHOOSE n \in c : \A m \in c : m >= n
\* max(candidates, key=lambda n: (n.lineno, n.end_lineno - n.lineno))
Innermost(f, c) == CHOOSE n \in c : \A m \in c \ {n} : KeyLess(f, m, n)

find_enclosing_python_chain(f, t) ==
    IF ~AstParses(f) THEN NoneChain
    ELSE IF Candidates(f, t) = {} THEN NoneChain
    ELSE SomeChain(Reverse(ChainUpward(f, Innermost(f, Candidates(f, t)))))

\* decl_re matches the line
RegexDecl(l) == l.k \in {"def", "class"}

RECURSIVE WalkBack(_, _, _)
\* the for loop over reversed(prev): prev[1..n] left, running minimum cur
WalkBack(prev, n, cur) ==
    IF n = 0 THEN <<>>
    ELSE IF prev[n].indent < cur
         THEN <<Token(prev[n].kind, prev[n].name)>> \o WalkBack(prev, n - 1, prev[n].indent)
         ELSE WalkBack(prev, n - 1, cur)

RECURSIVE DeclsBefore(_, _)
\* the declarations decl_re finds on lines 1..n, in line order
DeclsBefore(f, n) ==
    IF n = 0 THEN <<>>
    ELSE DeclsBefore(f, n - 1) \o
         (IF RegexDecl(f[n])
          THEN <<[lineno |-> n, indent |-> f[n].ind, kind |-> f[n].k, name |-> f[n].name]>>
          ELSE <<>>)

InfiniteIndent == 1000000000

find_enclosing_by_regex_AllDecls(f, t) ==
    IF t - 1 < 0 \/ t - 1 >= Len(f) THEN <<>>
    ELSE LET prev == DeclsBefore(f, t)
         IN  [j \in 1..Len(prev) |-> Token(prev[j].kind, prev[j].name)]
find_enclosing_by_regex(f, t) ==
    IF t - 1 < 0 \/ t - 1 >= Len(f) THEN <<>>
    ELSE LET prev == DeclsBefore(f, t)
         IN  Reverse(WalkBack(prev, Len(prev), InfiniteIndent))

(***************************************************************************)
(* The resolvers called on one file and one line.                          *)
(***************************************************************************)
Unset == [none |-> TRUE, chain |-> <<Token("unset", "")>>]

ScopeIdle ==
    /\ source_text = <<>>
    /\ target_lineno = 0
    /\ py_chain = Unset
    /\ rx_chain = Unset

CallPythonChain ==
    /\ pc = "resolve"
    /\ py_chain = Unset
    /\ py_chain' = find_enclosing_python_chain(source_text, target_lineno)
    /\ UNCHANGED <<pc, source_text, target_lineno, rx_chain>>
    /\ UNCHANGED <<parseVars, aggVars, scanVars, docVars>>

CallRegexChain ==
    /\ pc = "resolve"
    /\ rx_chain = Unset
    /\ rx_chain' = SomeChain(find_enclosing_by_regex(source_text, target_lineno))
    /\ UNCHANGED <<pc, source_text, target_lineno, py_chain>>
    /\ UNCHANGED <<parseVars, aggVars, scanVars, docVars>>


(***************************************************************************)
(* The script of git_module.py: the loop over the diffs of the head commit *)
(* against its first parent, and the aggregated prompt.                    *)
(***************************************************************************)
MaxDiffs == 2

NoPath == ""
NoFile == [exists |-> FALSE, text |-> <<>>]
FileOf(f) == [exists |-> TRUE, text |-> f]

\* class A on lines 1-2, line 3 at module level
SmallClassFile ==
    <<SrcLine("class", 0, "A"), SrcLine("stmt", 1, ""), SrcLine("stmt", 0, "")>>
\* def b on lines 1-3 holding def c on lines 2-3
NestedDefFile ==
    <<SrcLine("def", 0, "b"), SrcLine("def", 1, "c"), SrcLine("stmt", 2, "")>>
\* a Python file ast.parse rejects: the body of def d is not indented
BadIndentFile ==
    <<SrcLine("def", 0, "d"), SrcLine("stmt", 0, ""), SrcLine("stmt", 0, "")>>
\* a JavaScript file: class N holding function g
ScriptFile ==
    <<SrcLine("class", 0, "N"), SrcLine("function", 1, "g"), SrcLine("stmt", 2, "")>>

\* class A on lines 1-7 holding def b on lines 2-4 and def c on lines 5-7
LongFile ==
    <<SrcLine("class", 0, "A"), SrcLine("def", 1, "b"), SrcLine("stmt", 2, ""),
      SrcLine("stmt", 2, ""), SrcLine("def", 1, "c"), SrcLine("stmt", 2, ""),
      SrcLine("stmt", 2, "")>>

Worlds ==
    { [p \in {"m.py", "n.js"} |->
        [r \in {"commit", "parent"} |->
            IF p = "m.py" THEN (IF r = "commit" THEN FileOf(SmallClassFile)
                                ELSE FileOf(NestedDefFile))
            ELSE (IF r = "commit" THEN FileOf(ScriptFile) ELSE NoFile)]],
      [p \in {"m.py", "n.js"} |->
        [r \in {"commit", "parent"} |->
            IF p = "m.py" THEN (IF r = "commit" THEN FileOf(BadIndentFile)
                                ELSE FileOf(SmallClassFile))
            ELSE FileOf(ScriptFile)]],
      [p \in {"m.py", "n.js"} |->
        [r \in {"commit", "parent"} |->
            IF p = "m.py" THEN FileOf(LongFile) ELSE FileOf(ScriptFile)]] }

AggHeaders == {HunkLine(1, 1), HunkLine(3, 2)}
AggAlphabet == AggHeaders \cup {PlainLine(k) : k \in {"add", "del", "ctx", "atat"}}
\* the patches of the diffs: every patch of at most two lines, and two longer ones
AggPatches ==
    {<<>>} \cup {<<x>> : x \in AggAlphabet}
    \cup {<<x, y>> : x \in AggAlphabet, y \in AggAlphabet}
    \cup {<<HunkLine(1, 1), PlainLine("del"), PlainLine("add")>>,
          <<HunkLine(3, 2), PlainLine("ctx"), PlainLine("add"), PlainLine("del")>>}
AggPaths == {<<a, b>> : a \in {NoPath, "m.py", "n.js"}, b \in {NoPath, "m.py", "n.js"}}
              \ {<<NoPath, NoPath>>}

\* load_file_at_commit(path, ref)
load_file_at_commit(path, ref) == repo_files[path][ref]

\* path.endswith('.py')
EndsWithPy(path) == path = "m.py"

Max(a, b) == IF a >= b THEN a ELSE b
Min(a, b) == IF a <= b THEN a ELSE b

\* src_lines[ctx_start:ctx_end], a Python slice with 0-based bounds
Slice(s, from, to) ==
    IF to <= from THEN <<>> ELSE [j \in 1..(to - from) |-> s[from + j]]

ContextRadiusBefore == 3
ContextRadiusAfter == 2

ContextSnippet_Symmetric(f, lineno) ==
    Slice(f, Max(0, lineno - ContextRadiusAfter), Min(Len(f), lineno + ContextRadiusAfter))
\* the context snippet around line lineno of the file text f
ContextSnippet(f, lineno) ==
    Slice(f, Max(0, lineno - ContextRadiusBefore), Min(Len(f), lineno + ContextRadiusAfter))

\* the enclosing chain the loop body computes for line lineno of path
EnclosingChain(path, f, lineno) ==
    IF EndsWithPy(path)
    THEN LET chain == find_enclosing_python_chain(f, lineno)
         IN  IF chain.none THEN find_enclosing_by_regex(f, lineno) ELSE chain.chain
    ELSE find_enclosing_by_regex(f, lineno)

\* the body of the loop over changes for one change: the entries it appends
ContextFor(d, ch) ==
    LET path == IF ch.type = "add" THEN d.b_path ELSE d.a_path
        ref == IF ch.type = "add" THEN "commit" ELSE "parent"
    IN  IF path = NoPath THEN <<>>
        ELSE LET file == load_file_at_commit(path, ref)
             IN  IF ~file.exists THEN <<>>
                 ELSE <<[file_path |-> path,
                         ref |-> ref,
                         change_type |-> ch.type,
                         lineno |-> ch.lineno,
                         context |-> ContextSnippet(file.text, ch.lineno),
                         enclosing_chain |-> EnclosingChain(path, file.text, ch.lineno),
                         commit |-> "commit",
                         parent_commit |-> "parent"]>>

ContextsFor_LastOnly(d, chs, n) == IF n = 0 THEN <<>> ELSE ContextFor(d, chs[n])
RECURSIVE ContextsFor(_, _, _)
\* the loop over changes[1..n]
ContextsFor(d, chs, n) ==
    IF n = 0 THEN <<>> ELSE ContextsFor(d, chs, n - 1) \o ContextFor(d, chs[n])

NoDiff == [a_path |-> NoPath, b_path |-> NoPath]
NoPrompt == <<[number |-> 0, entry |-> "none"]>>

AggIdle ==
    /\ repo_files = CHOOSE w \in Worlds : TRUE
    /\ diff = NoDiff
    /\ ndiffs = 0
    /\ all_rag_contexts = <<>>
    /\ combined_prompt = NoPrompt

\* the for loop takes the next diff and calls parse_patch_for_changes on its patch
NextDiff ==
    /\ pc = "loop"
    /\ ndiffs < MaxDiffs
    /\ \E pp \in AggPaths, patch \in AggPatches :
         /\ diff' = [a_path |-> pp[1], b_path |-> pp[2]]
         /\ lines' = patch
    /\ ndiffs' = ndiffs + 1
    /\ i' = 1
    /\ in_hunk' = FALSE
    /\ old_line' = 0
    /\ new_line' = 0
    /\ changes' = <<>>
    /\ pc' = "parse"
    /\ UNCHANGED <<repo_files, all_rag_contexts, combined_prompt, scopeVars, scanVars, docVars>>

\* the rest of the loop body once parse_patch_for_changes has returned
CollectContexts ==
    /\ pc = "changes"
    /\ ndiffs > 0
    /\ all_rag_contexts' =
         IF changes = <<>> THEN all_rag_contexts
         ELSE all_rag_contexts \o ContextsFor(diff, changes, Len(changes))
    \* patch, changes and the parser's locals are dead until the next diff
    /\ diff' = NoDiff
    /\ lines' = <<>>
    /\ i' = 1
    /\ in_hunk' = FALSE
    /\ old_line' = 0
    /\ new_line' = 0
    /\ changes' = <<>>
    /\ pc' = "loop"
    /\ UNCHANGED <<repo_files, ndiffs, combined_prompt, scopeVars, scanVars, docVars>>

\* after the loop: the numbered blocks of the aggregated prompt
BuildPrompt ==
    /\ pc = "loop"
    /\ combined_prompt' =
         IF all_rag_contexts = <<>> THEN <<>>
         ELSE [n \in 1..Len(all_rag_contexts) |->
                 [number |-> n, entry |-> all_rag_contexts[n]]]
    /\ pc' = "done"
    /\ UNCHANGED <<repo_files, diff, ndiffs, all_rag_contexts, parseVars, scopeVars, scanVars, docVars>>

(***************************************************************************)
(* langraph.py and app/docgen.py: languages, declaration scanners and      *)
(* documentation extractors.  Further line kinds of a source file:         *)
(*   docstr  a string-literal expression statement (name holds its text)   *)
(*   jsdoc   a one-line "/** text */" comment   (name holds its text)      *)
(*   const   "const NAME = ..."      blank  an empty or whitespace line    *)
(***************************************************************************)
None == -1

\* Python's "x or d" for an int or None
OrElse(x, d) == IF x = None \/ x = 0 THEN d ELSE x

\* every path of the model, in sorted order
PathOrder ==
    <<"a.js", "a.py", "b.js", "docs/files/a.html", "docs/files/b.html",
      "docs/files/docs__files__a.html", "docs/files/docs__files__b.html",
      "docs/history.json", "notes.txt">>

\* langraph.detect_language_from_path
detect_language_from_path(path) ==
    IF path \in {"a.py"} THEN "python"
    ELSE IF path \in {"a.js", "b.js"} THEN "javascript"
    ELSE IF path = "docs/history.json" THEN "json"
    ELSE IF path = "notes.txt" THEN "unknown"
    ELSE "html"

Decl(type, name, lineno, end_lineno) ==
    [type |-> type, name |-> name, lineno |-> lineno, end_lineno |-> end_lineno]

\* the number of statements that enclose line n
RECURSIVE Depth(_, _)
Depth(f, n) == IF ParentLine(f, n) = 0 THEN 0 ELSE 1 + Depth(f, ParentLine(f, n))

\* node a comes before node b in ast.walk (breadth first)
WalkBefore(f, a, b) ==
    \/ Depth(f, a) < Depth(f, b)
    \/ Depth(f, a) = Depth(f, b) /\ a < b

RECURSIVE WalkOrder(_, _)
\* the lines in S in ast.walk order
WalkOrder(f, S) ==
    IF S = {} THEN <<>>
    ELSE LET n == CHOOSE x \in S : \A y \in S \ {x} : WalkBefore(f, x, y)
         IN  <<n>> \o WalkOrder(f, S \ {n})

RemoveAt(s, n) == SubSeq(s, 1, n - 1) \o SubSeq(s, n + 1, Len(s))

SortByLineno_Unsorted(items) == items
RECURSIVE SortByLineno(_)
\* items.sort(key=lambda x: (x['lineno'] or 0)): a stable sort
SortByLineno(items) ==
    IF items = <<>> THEN <<>>
    ELSE LET n == CHOOSE x \in 1..Len(items) :
                    /\ \A y \in 1..Len(items) :
                          OrElse(items[x].lineno, 0) <= OrElse(items[y].lineno, 0)
                    /\ \A y \in 1..(x - 1) :
                          OrElse(items[y].lineno, 0) > OrElse(items[x].lineno, 0)
         IN  <<items[n]>> \o SortByLineno(RemoveAt(items, n))

parse_python_structure_Raises(f) ==
    IF ~AstParses(f) THEN [raised |-> TRUE, items |-> <<>>]
    ELSE [raised |-> FALSE, items |-> <<>>]
\* langraph.parse_python_structure: the items, or the exception that escapes
parse_python_structure(f) ==
    IF ~AstParses(f) THEN [raised |-> FALSE, items |-> <<>>]
    ELSE LET order == WalkOrder(f, {n \in 1..Len(f) : f[n].k \in PyDeclKinds})
             items == [j \in 1..Len(order) |->
                         Decl(IF f[order[j]].k = "class" THEN "class" ELSE "def",
                              f[order[j]].name, order[j], EndLineno(f, order[j]))]
         IN  [raised |-> FALSE, items |-> SortByLineno(items)]

\* _generic_decl_re finds a declaration keyword at the start of the line
GenericDecl(l) == l.k \in {"class", "def", "function"}

\* the line of m.start(): "^(\s*)" also takes the blank lines before line n
MatchStartLine(f, n) ==
    CHOOSE b \in 1..n :
        /\ \A m \in b..(n - 1) : f[m].k = "blank"
        /\ b = 1 \/ f[b - 1].k # "blank"

RECURSIVE GenericItems(_, _)
\* the loop over _generic_decl_re.finditer(text), for lines 1..n
GenericItems(f, n) ==
    IF n = 0 THEN <<>>
    ELSE GenericItems(f, n - 1) \o
         (IF GenericDecl(f[n])
          THEN <<Decl(f[n].k, f[n].name, MatchStartLine(f, n), None)>>
          ELSE <<>>)

\* docgen._scan_declarations
scan_declarations(f, language) ==
    IF language = "python" THEN parse_python_structure(f)
    ELSE [raised |-> FALSE, items |-> GenericItems(f, Len(f))]

DocKey(kind, name, start, end) == <<Token(kind, name), start, end>>
DocRecord(key, doc) == [key |-> key, doc |-> doc]

\* ast.get_docstring(node) for the node on line n
GetDocstring(f, n) ==
    IF n < Len(f) /\ f[n + 1].k = "docstr" /\ f[n + 1].ind > f[n].ind
    THEN f[n + 1].name ELSE ""

\* docgen._parse_python_docstrings
parse_python_docstrings(f) ==
    IF ~AstParses(f) THEN {}
    ELSE {DocRecord(DocKey(IF f[n].k = "class" THEN "class" ELSE "def", f[n].name,
                           n, EndLineno(f, n)),
                    GetDocstring(f, n)) :
            n \in {m \in 1..Len(f) : f[m].k \in PyDeclKinds /\ GetDocstring(f, m) # ""}}

JsDocWindow == 5

\* func_re matches the line
JsFuncMatch(l) == l.k \in {"function", "const"}

\* "class" in line
MentionsClass(l) == l.k = "class" \/ l.name = "classify"

\* jsdoc_re.search(prev_text): the first one-line comment of the window before n
JsDocBefore(f, n) ==
    LET window == {m \in Max(1, n - JsDocWindow)..(n - 1) : f[m].k = "jsdoc"}
    IN  IF window = {} THEN ""
        ELSE f[CHOOSE m \in window : \A q \in window : m <= q].name

\* docgen._parse_javascript_docstrings
parse_javascript_docstrings(f) ==
    {DocRecord(DocKey(IF MentionsClass(f[n]) THEN "class" ELSE "function", f[n].name, n, n),
               JsDocBefore(f, n)) :
        n \in {m \in 1..Len(f) : JsFuncMatch(f[m]) /\ JsDocBefore(f, m) # ""}}

\* docgen._parse_docstrings_by_language
parse_docstrings_by_language(f, language) ==
    IF language = "python" THEN parse_python_docstrings(f)
    ELSE IF language \in {"javascript", "typescript"} THEN parse_javascript_docstrings(f)
    ELSE {}

(***************************************************************************)
(* app/docgen.py: the scan of the repository, the generated texts and the  *)
(* rendering of one document per file.                                     *)
(***************************************************************************)
FileEntry(path, text, language, decls, existing_docs) ==
    [path |-> path, text |-> text, language |-> language,
     decls |-> decls, existing_docs |-> existing_docs]

RECURSIVE ScanFrom(_, _)
\* the loop "for file_path in all_files" from the k-th sorted path on; the
\* result is files_data in insertion order, or the exception of a scanner
ScanFrom(files, k) ==
    IF k > Len(PathOrder) THEN [raised |-> FALSE, data |-> <<>>]
    ELSE LET path == PathOrder[k]
             lang == detect_language_from_path(path)
             rest == ScanFrom(files, k + 1)
         IN  IF path \notin DOMAIN files \/ lang = "unknown" THEN rest
             ELSE LET scan == scan_declarations(files[path], lang)
                  IN  IF scan.raised THEN [raised |-> TRUE, data |-> <<>>]
                      ELSE IF scan.items = <<>> THEN rest
                      ELSE [raised |-> rest.raised,
                            data |-> <<FileEntry(path, files[path], lang, scan.items,
                                         parse_docstrings_by_language(files[path], lang))>>
                                     \o rest.data]

\* the declarations of one file that _generate_llm_docs_for_missing collects
MissingItems(entry) ==
    LET Missing(d) ==
            DocKey(d.type, d.name, d.lineno, d.end_lineno)
                \notin {r.key : r \in entry.existing_docs}
    IN  SelectSeq(entry.decls, Missing)

\* what one call of call_groq_api can come back with
LlmShapes == {"error", "qualified", "bare", "empty", "nontext", "prose"}

NonText == "<a value that is not a string>"

\* the entries one answer adds to llm_docs for the missing items of a file
LlmEntries(path, items, shape) ==
    IF shape = "error" THEN {}
    ELSE {[key |-> <<path, items[j].type, items[j].name>>,
           val |-> CASE shape = "qualified" -> "Generated by kind."
                     [] shape = "bare"      -> " Generated by name. "
                     [] shape = "empty"     -> ""
                     [] shape = "nontext"   -> NonText
                     [] OTHER               -> "Generated from prose."] :
            j \in 1..Len(items)}

\* docgen._generate_llm_docs_for_missing; shapes gives the answer per file
generate_llm_docs_for_missing(data, use_llm, shapes) ==
    IF ~use_llm THEN {}
    ELSE UNION {LlmEntries(data[j].path, MissingItems(data[j]), shapes[data[j].path]) :
                   j \in 1..Len(data)}

Templates == {"api", "class_breakdown", "summary"}

TitleOf(template) ==
    CASE template = "api" -> "API Documentation"
      [] template = "class_breakdown" -> "Class and Function Breakdown"
      [] OTHER -> "Documentation"

Placeholder == "No documentation available."

\* str.strip on the texts of the model
Strip(text) == IF text = " Generated by name. " THEN "Generated by name." ELSE text

DocLine(t, kind, name, start, end, text) ==
    [t |-> t, kind |-> kind, name |-> name, start |-> start, end |-> end, text |-> text]
TextLine(t, text) == DocLine(t, "", "", 0, 0, text)

ExistingDoc(existing_docs, key) ==
    IF \E r \in existing_docs : r.key = key
    THEN (CHOOSE r \in existing_docs : r.key = key).doc ELSE ""

GeneratedDoc(llm, key) ==
    IF \E r \in llm : r.key = key THEN (CHOOSE r \in llm : r.key = key).val ELSE ""

HeaderEnd_Raw(d, start) == d.end_lineno
\* end = d.get("end_lineno") or start
HeaderEnd(d, start) == OrElse(d.end_lineno, start)

ChooseDoc_GeneratedFirst(rel_path, d, key, existing_docs, llm) ==
    IF GeneratedDoc(llm, <<rel_path, d.type, d.name>>) # ""
    THEN GeneratedDoc(llm, <<rel_path, d.type, d.name>>)
    ELSE ExistingDoc(existing_docs, key)
\* doc = existing_docs.get(key); if not doc: doc = llm_docs.get(..., "")
ChooseDoc(rel_path, d, key, existing_docs, llm) ==
    IF ExistingDoc(existing_docs, key) # "" THEN ExistingDoc(existing_docs, key)
    ELSE GeneratedDoc(llm, <<rel_path, d.type, d.name>>)

\* the two lines of one section: the header and the body
Section(rel_path, d, existing_docs, llm) ==
    LET start == OrElse(d.lineno, 0)
        end   == HeaderEnd(d, start)
        doc   == ChooseDoc(rel_path, d, DocKey(d.type, d.name, start, end), existing_docs, llm)
    IN  [raised |-> doc = NonText,
         lines  |-> <<DocLine("h3", d.type, d.name, start, end, ""),
                      TextLine("body", Strip(IF doc = "" THEN Placeholder ELSE doc))>>]

RECURSIVE Sections(_, _, _, _, _)
Sections(rel_path, decls, existing_docs, llm, k) ==
    IF k > Len(decls) THEN [raised |-> FALSE, lines |-> <<>>]
    ELSE LET s    == Section(rel_path, decls[k], existing_docs, llm)
             rest == Sections(rel_path, decls, existing_docs, llm, k + 1)
         IN  IF s.raised THEN [raised |-> TRUE, lines |-> <<>>]
             ELSE [raised |-> rest.raised,
                   lines  |-> IF rest.raised THEN <<>> ELSE s.lines \o rest.lines]

\* docgen._render_markdown_for_file: the document, or the exception raised
render_markdown_for_file(rel_path, decls, existing_docs, llm, template) ==
    LET top  == <<TextLine("h1", rel_path), TextLine("h2", TitleOf(template))>>
        body == Sections(rel_path, decls, existing_docs, llm, 1)
    IN  IF decls = <<>>
        THEN [raised |-> FALSE, doc |-> top \o <<TextLine("text", "(No declarations found)")>>]
        ELSE [raised |-> body.raised,
              doc |-> IF body.raised THEN <<>> ELSE top \o body.lines]

(***************************************************************************)
(* The files the documentation pipeline is run on.                         *)
(***************************************************************************)
MaxDocLen == 3

DocNameAt == <<"f", "g", "f", "g", "f">>
DocTextAt == <<"Adds two numbers.", "Function that adds.", "Third text.",
               "Fourth text.", "Fifth text.">>

PyDocShapes == {"def", "class", "stmt", "docstr"} \X Indents
JsDocShapes == {"function", "class", "const", "jsdoc", "stmt", "blank"} \X {0}

DocFilesOfLen(shapes, m) ==
    {[j \in 1..m |-> SrcLine(s[j][1], s[j][2],
                             IF s[j][1] \in {"docstr", "jsdoc"} THEN DocTextAt[j]
                             ELSE IF s[j][1] \in {"stmt", "blank"} THEN ""
                             ELSE DocNameAt[j])] :
        s \in [1..m -> shapes]}
DocFilesUpTo(shapes, n) == UNION {DocFilesOfLen(shapes, m) : m \in 0..n}

\* an undocumented function, then a documented one
CompanionJs ==
    <<SrcLine("function", 0, "sub"),
      SrcLine("jsdoc", 0, "Adds two numbers."),
      SrcLine("function", 0, "add")>>

\* class A holding def b, then a top-level def c
NestedThenTopFile ==
    <<SrcLine("class", 0, "A"), SrcLine("def", 1, "b"), SrcLine("stmt", 2, ""),
      SrcLine("def", 0, "c"), SrcLine("stmt", 1, "")>>

\* a documented function of two lines, then a function with no comment
EarlierCommentJs ==
    <<SrcLine("jsdoc", 0, "Adds two numbers."), SrcLine("function", 0, "add"),
      SrcLine("stmt", 0, ""), SrcLine("function", 0, "sub")>>

\* a file of a language the pipeline does not know
NotesFile == <<SrcLine("def", 0, "f")>>

ScanTrees ==
    {("a.py" :> f) @@ ("b.js" :> CompanionJs) @@ ("notes.txt" :> NotesFile) :
        f \in DocFilesUpTo(PyDocShapes, MaxDocLen) \cup {NestedThenTopFile}}
    \cup
    {("a.js" :> f) @@ ("b.js" :> CompanionJs) @@ ("notes.txt" :> NotesFile) :
        f \in DocFilesUpTo(JsDocShapes, MaxDocLen) \cup {EarlierCommentJs}}

DocOptions(template, manual_override, export_formats, use_llm) ==
    [template |-> template, manual_override |-> manual_override,
     export_formats |-> export_formats, use_llm |-> use_llm]

ScanOptions ==
    {DocOptions(t, FALSE, {"md"}, u) : t \in {"api", "summary"}, u \in BOOLEAN}

\* the answers of the calls of one run, per file
LlmOutcomes ==
    {[p \in {PathOrder[k] : k \in 1..Len(PathOrder)} |-> s] : s \in LlmShapes}
    \cup
    {[p \in {PathOrder[k] : k \in 1..Len(PathOrder)} |->
        IF p = "b.js" THEN "qualified" ELSE "error"]}

RECURSIVE RenderFrom(_, _, _, _)
\* the loop "for file_path, data in files_data.items()" from the k-th entry on:
\* the documents rendered before an exception, and whether one was raised
RenderFrom(data, llm, template, k) ==
    IF k > Len(data) THEN [raised |-> FALSE, docs |-> <<>>]
    ELSE LET e == data[k]
             r == render_markdown_for_file(e.path, e.decls, e.existing_docs, llm, template)
             rest == RenderFrom(data, llm, template, k + 1)
         IN  IF r.raised THEN [raised |-> TRUE, docs |-> <<>>]
             ELSE [raised |-> rest.raised,
                   docs |-> <<[path |-> e.path, doc |-> r.doc]>> \o rest.docs]

NoOptions == DocOptions("", FALSE, {}, FALSE)

ScanIdle ==
    /\ tree = <<>>
    /\ options = NoOptions
    /\ files_data = <<>>
    /\ llm_docs = {}
    /\ rendered = <<>>

\* generate_documentation, lines 515-541: the scan of every file
ScanRepo ==
    /\ pc = "scan"
    /\ \E o \in ScanOptions : options' = o
    /\ LET r == ScanFrom(tree, 1)
       IN  /\ files_data' = r.data
           /\ pc' = IF r.raised THEN "scan raised" ELSE "generate"
    /\ UNCHANGED <<tree, llm_docs, rendered>>
    /\ UNCHANGED <<parseVars, scopeVars, aggVars, docVars>>

\* generate_documentation, line 544: the generated texts
GenerateLlmDocs ==
    /\ pc = "generate"
    /\ \E shapes \in LlmOutcomes :
          llm_docs' = generate_llm_docs_for_missing(files_data, options.use_llm, shapes)
    /\ pc' = "render"
    /\ UNCHANGED <<tree, options, files_data, rendered>>
    /\ UNCHANGED <<parseVars, scopeVars, aggVars, docVars>>

\* generate_documentation, lines 550-556: one document per scanned file
RenderFiles ==
    /\ pc = "render"
    /\ LET r == RenderFrom(files_data, llm_docs, options.template, 1)
       IN  /\ rendered' = r.docs
           /\ pc' = IF r.raised THEN "render raised" ELSE "rendered"
    /\ UNCHANGED <<tree, options, files_data, llm_docs>>
    /\ UNCHANGED <<parseVars, scopeVars, aggVars, docVars>>

(***************************************************************************)
(* app/docgen.py: generate_documentation as a whole, with what it leaves   *)
(* on disk and in the git index.  A file under docs/ is named by its       *)
(* directory, its stem and its suffix; its content is the document it was  *)
(* written from and how it was converted.                                  *)
(***************************************************************************)
MaxRuns == 2

\* safe_name without its suffix, as out_base.with_suffix replaces it
Stem(path) ==
    CASE path \in {"a.py", "a.js"} -> "a"
      [] path = "b.js" -> "b"
      [] path = "docs/files/a.html" -> "docs__files__a"
      [] path = "docs/files/b.html" -> "docs__files__b"
      [] OTHER -> "other"

\* the path git ls-files gives for a tracked file under docs/, "" if the
\* model has no name for it
TrackedPath(key) ==
    CASE key = <<"files", "a", "html">> -> "docs/files/a.html"
      [] key = <<"files", "b", "html">> -> "docs/files/b.html"
      [] key = <<"files", "docs__files__a", "html">> -> "docs/files/docs__files__a.html"
      [] key = <<"files", "docs__files__b", "html">> -> "docs/files/docs__files__b.html"
      [] OTHER -> ""

SummaryKey == <<"docs", "summary", "md">>
HistoryKey == <<"docs", "history", "json">>

Content(fmt, naive, doc) == [fmt |-> fmt, naive |-> naive, doc |-> doc]

\* the declaration keyword and the name a text starts with, if it starts so
LedBy(text) ==
    IF text = "Function that adds." THEN SrcLine("function", 0, "that")
    ELSE SrcLine("stmt", 0, "")

Blank == SrcLine("blank", 0, "")

RECURSIVE MarkdownLines(_, _)
\* the lines of the markdown text of a document, blank lines included
MarkdownLines(doc, k) ==
    IF k > Len(doc) THEN <<>>
    ELSE (IF doc[k].t = "body" THEN <<LedBy(doc[k].text), Blank>>
          ELSE IF doc[k].t = "text" THEN <<SrcLine("stmt", 0, "")>>
          ELSE <<SrcLine("stmt", 0, ""), Blank>>)
         \o MarkdownLines(doc, k + 1)

\* the text of an exported .html file as the scanners read it: the naive
\* conversion keeps the markdown lines after "<pre>", the markdown package
\* puts every block behind a tag
HtmlAsSource(content) ==
    IF content.naive
    THEN LET md == MarkdownLines(content.doc, 1)
         IN  [j \in 1..Len(md) |-> IF j = 1 THEN SrcLine("stmt", 0, "") ELSE md[j]]
             \o <<SrcLine("stmt", 0, "")>>
    ELSE [j \in 1..Len(content.doc) |-> SrcLine("stmt", 0, "")]

\* docs/history.json as the scanners read it: no line starts with a keyword
HistoryAsSource(h) == [j \in 1..(2 + Len(h.entries)) |-> SrcLine("stmt", 0, "")]

\* _get_all_files_in_repo with the text of each file: the working tree
\* outside docs/ and the tracked files under docs/
AllFiles(files, out, idx, h) ==
    LET htmls == {key \in idx \cap DOMAIN out : TrackedPath(key) # ""}
    IN  [p \in DOMAIN files \cup {TrackedPath(key) : key \in htmls}
               \cup (IF HistoryKey \in idx THEN {"docs/history.json"} ELSE {}) |->
            IF p \in DOMAIN files THEN files[p]
            ELSE IF p = "docs/history.json" THEN HistoryAsSource(h)
            ELSE HtmlAsSource(out[CHOOSE key \in htmls : TrackedPath(key) = p])]

\* what the environment of one invocation does
Env(repo_path, markdown, llm, git, pdf, write) ==
    [repo_path |-> repo_path, markdown |-> markdown, llm |-> llm, git |-> git,
     pdf |-> pdf, write |-> write]

\* a write_text of _write_exports raises
WriteRaises(formats, env) ==
    \/ env.write = "md fails" /\ "md" \in formats
    \/ env.write = "html fails" /\ "html" \in formats

\* docgen._write_exports for one document: the files under docs/ afterwards
WriteExports(out, dir, stem, doc, formats, env) ==
    LET md   == IF "md" \in formats /\ env.write # "md fails"
                THEN (<<dir, stem, "md">> :> Content("md", FALSE, doc)) ELSE <<>>
        html == IF "html" \in formats /\ env.write = "ok"
                THEN (<<dir, stem, "html">> :> Content("html", ~env.markdown, doc)) ELSE <<>>
        pdf  == IF WriteRaises(formats, env) THEN <<>>
                ELSE IF "pdf" \in formats /\ env.pdf = "ok"
                THEN (<<dir, stem, "pdf">> :> Content("pdf", ~env.markdown, doc))
                ELSE IF "pdf" \in formats /\ env.pdf = "fails"
                THEN (<<dir, stem, "tmp.html">> :> Content("html", ~env.markdown, doc))
                ELSE <<>>
        kept == IF "pdf" \in formats /\ env.pdf = "ok" /\ ~WriteRaises(formats, env)
                THEN [key \in DOMAIN out \ {<<dir, stem, "tmp.html">>} |-> out[key]]
                ELSE out
    IN  pdf @@ html @@ md @@ kept

OutputsOf_AllRequested(formats, env) == formats
\* the keys of the dict _write_exports returns
OutputsOf(formats, env) ==
    (formats \cap {"md", "html"}) \cup
    (IF "pdf" \in formats /\ env.pdf = "ok" THEN {"pdf"} ELSE {})

RECURSIVE WriteAll(_, _, _, _, _, _)
\* the exports of the documents rendered, in order, up to the first
\* write_text that raises
WriteAll(out, dir, docs, formats, env, k) ==
    IF k > Len(docs) THEN out
    ELSE IF WriteRaises(formats, env)
    THEN WriteExports(out, dir, Stem(docs[k].path), docs[k].doc, formats, env)
    ELSE WriteAll(WriteExports(out, dir, Stem(docs[k].path), docs[k].doc, formats, env),
                  dir, docs, formats, env, k + 1)

SummaryCap == 100

SummaryOf_NoRemainder(template, touched) ==
    <<TextLine("h1", "Documentation Summary"),
      TextLine("text", template),
      DocLine("count", "", "", Len(touched), 0, "")>>
    \o [j \in 1..Min(Len(touched), SummaryCap) |-> TextLine("item", touched[j])]
\* the lines of docs/summary.md
SummaryOf(template, touched) ==
    <<TextLine("h1", "Documentation Summary"),
      TextLine("text", template),
      DocLine("count", "", "", Len(touched), 0, "")>>
    \o [j \in 1..Min(Len(touched), SummaryCap) |-> TextLine("item", touched[j])]
    \o (IF Len(touched) > SummaryCap
        THEN <<DocLine("more", "", "", Len(touched) - SummaryCap, 0, "")>> ELSE <<>>)

HistoryEntry(source_commit, o, touched) ==
    [source_commit |-> source_commit, template |-> o.template,
     manual_override |-> o.manual_override, export_formats |-> o.export_formats,
     touched |-> touched, total_files |-> Len(touched)]

\* docs/history.json: absent, a JSON object with its "entries" list, a text
\* that does not parse (the log of these entries, cut short), or a JSON
\* value that is no object
Store(kind, entries) == [kind |-> kind, entries |-> entries]

\* docgen._update_history: the store afterwards, or the exception raised
update_history(h, entry) ==
    CASE h.kind = "absent"  -> [raised |-> FALSE, store |-> Store("object", <<entry>>)]
      [] h.kind = "object"  -> [raised |-> FALSE, store |-> Store("object", Append(h.entries, entry))]
      [] h.kind = "damaged" -> [raised |-> FALSE, store |-> Store("object", <<entry>>)]
      [] OTHER              -> [raised |-> TRUE, store |-> h]

DocstringFile(text) ==
    <<SrcLine("def", 0, "f"), SrcLine("docstr", 1, text), SrcLine("stmt", 1, "")>>

\* the working trees generate_documentation is run on
DocTrees ==
    { ("a.py" :> DocstringFile("Function that adds.")) @@ ("b.js" :> CompanionJs)
          @@ ("notes.txt" :> NotesFile),
      ("a.py" :> DocstringFile("Adds two numbers."))
          @@ ("a.js" :> <<SrcLine("function", 0, "g")>>),
      ("a.py" :> <<SrcLine("def", 0, "f")>>) @@ ("b.js" :> CompanionJs),
      ("notes.txt" :> NotesFile) }

DefaultOptions == DocOptions("api", FALSE, {"md", "html"}, FALSE)

\* an environment in which nothing fails
Healthy == Env("repo", TRUE, "qualified", "ok", "ok", "ok")

\* the invocations: the options and the environment of each
DocRuns ==
    { <<DefaultOptions, Healthy>>,
      <<DefaultOptions, [Healthy EXCEPT !.markdown = FALSE]>>,
      <<DefaultOptions, [Healthy EXCEPT !.git = "commit fails"]>>,
      <<DefaultOptions, [Healthy EXCEPT !.git = "add fails"]>>,
      <<DefaultOptions, [Healthy EXCEPT !.write = "html fails"]>>,
      <<DefaultOptions, [Healthy EXCEPT !.repo_path = "plain directory"]>>,
      <<DefaultOptions, [Healthy EXCEPT !.repo_path = "no such path"]>>,
      <<DocOptions("summary", FALSE, {"md"}, FALSE), [Healthy EXCEPT !.write = "md fails"]>>,
      <<DocOptions("api", FALSE, {}, FALSE), Healthy>>,
      <<DocOptions("api", FALSE, {"md", "pdf"}, FALSE), Healthy>>,
      <<DocOptions("api", FALSE, {"md", "pdf"}, FALSE), [Healthy EXCEPT !.pdf = "fails"]>>,
      <<DocOptions("api", FALSE, {"md", "pdf"}, FALSE), [Healthy EXCEPT !.pdf = "missing"]>>,
      <<DocOptions("api", TRUE, {"md", "html"}, FALSE), Healthy>>,
      <<DocOptions("api", TRUE, {"md", "html"}, TRUE), Healthy>>,
      <<DocOptions("api", TRUE, {"md", "html"}, TRUE), [Healthy EXCEPT !.llm = "error"]>>,
      <<DocOptions("api", TRUE, {"md", "html"}, TRUE), [Healthy EXCEPT !.llm = "prose"]>>,
      <<DocOptions("api", TRUE, {"md", "html"}, TRUE), [Healthy EXCEPT !.llm = "empty"]>>,
      <<DocOptions("api", TRUE, {"md", "html"}, TRUE), [Healthy EXCEPT !.llm = "nontext"]>>,
      <<DocOptions("class_breakdown", FALSE, {"md"}, TRUE), [Healthy EXCEPT !.llm = "bare"]>> }

PriorEntry ==
    HistoryEntry(None, DocOptions("api", TRUE, {"md"}, FALSE), <<"a.py">>)

PriorStores ==
    { Store("absent", <<>>), Store("object", <<PriorEntry>>),
      Store("damaged", <<PriorEntry>>), Store("other", <<>>) }

Raised(error) ==
    [status |-> "raised", error |-> error, changed |-> <<>>, outputs |-> {},
     drafts_dir |-> "", linked_commit |-> None]
Returned(changed, outputs, drafts_dir, linked_commit) ==
    [status |-> "returned", error |-> "", changed |-> changed, outputs |-> outputs,
     drafts_dir |-> drafts_dir, linked_commit |-> linked_commit]
NoResult == Raised("not called")

DocIdle ==
    /\ docs_out = <<>>
    /\ index = {}
    /\ head = 0
    /\ history = Store("absent", <<>>)
    /\ result = NoResult
    /\ environment = Healthy
    /\ runs = 0

\* the paths of files_data, in order
Touched(data) == [j \in 1..Len(data) |-> data[j].path]

OpensRepo_Always(repo_path) == TRUE
\* Repo(str(repo_root)) returns a repository
OpensRepo(repo_path) == repo_path = "repo"

OutDir_Canonical(o) == "files"
\* drafts_dir: docs/drafts under manual_override, docs/files otherwise
OutDir(o) == IF o.manual_override THEN "drafts" ELSE "files"

\* generate_documentation(repo_path, options) in an environment env
GenerateDocumentation ==
    /\ pc = "docs"
    /\ runs < MaxRuns
    /\ runs' = runs + 1
    /\ LET scan    == ScanFrom(AllFiles(tree, docs_out, index, history), 1)
           touched == Touched(scan.data)
       IN  \E run \in DocRuns :
        LET o == run[1]
            env == run[2]
        IN
        /\ options' = o
        /\ environment' = env
        /\ IF ~OpensRepo(env.repo_path)
           THEN /\ result' = Raised(IF env.repo_path = "plain directory"
                                    THEN "FileNotFoundError" ELSE "NoSuchPathError")
                /\ UNCHANGED <<files_data, llm_docs, rendered, docs_out, index, head, history>>
           ELSE LET dir     == OutDir(o)
                    llm     == generate_llm_docs_for_missing(scan.data, o.use_llm,
                                   [p \in {PathOrder[k] : k \in 1..Len(PathOrder)} |-> env.llm])
                    r       == RenderFrom(scan.data, llm, o.template, 1)
                    failed  == r.docs # <<>> /\ WriteRaises(o.export_formats, env)
                    written == WriteAll(docs_out, dir, r.docs, o.export_formats, env, 1)
                    summed  == (SummaryKey :> Content("md", FALSE, SummaryOf(o.template, touched)))
                               @@ written
                    entry   == HistoryEntry(IF head = 0 THEN None ELSE head, o, touched)
                    h       == update_history(history, entry)
                    to_add  == {<<dir, Stem(touched[j]), fmt>> :
                                   j \in 1..Len(touched), fmt \in OutputsOf(o.export_formats, env)}
                               \cup {SummaryKey, HistoryKey}
                    outputs == {<<touched[j], fmt>> :
                                   j \in 1..Len(touched), fmt \in OutputsOf(o.export_formats, env)}
                IN  /\ files_data' = scan.data
                    /\ llm_docs' = llm
                    /\ rendered' = IF failed THEN SubSeq(r.docs, 1, 1) ELSE r.docs
                    /\ IF scan.raised \/ failed \/ r.raised
                       THEN /\ result' = Raised(IF scan.raised THEN "scanner"
                                                ELSE IF failed THEN "OSError"
                                                ELSE "AttributeError")
                            /\ docs_out' = written
                            /\ UNCHANGED <<index, head, history>>
                       ELSE IF h.raised
                       THEN /\ result' = Raised("AttributeError")
                            /\ docs_out' = summed
                            /\ UNCHANGED <<index, head, history>>
                       ELSE IF o.manual_override
                       THEN /\ result' = Returned(touched, outputs, "drafts", None)
                            /\ docs_out' = summed
                            /\ history' = h.store
                            /\ UNCHANGED <<index, head>>
                       ELSE IF env.git = "add fails"
                       THEN /\ result' = Raised("GitCommandError")
                            /\ docs_out' = summed
                            /\ history' = h.store
                            /\ UNCHANGED <<index, head>>
                       ELSE /\ docs_out' = summed
                            /\ history' = h.store
                            /\ index' = index \cup to_add
                            /\ head' = IF env.git = "ok" THEN head + 1 ELSE head
                            /\ result' = Returned(touched, outputs, "",
                                           IF env.git = "ok" THEN head + 1 ELSE None)
    /\ UNCHANGED <<pc, tree>>
    /\ UNCHANGED <<parseVars, scopeVars, aggVars>>

AggInit ==
    /\ pc = "loop"
    /\ repo_files \in Worlds
    /\ diff = NoDiff
    /\ ndiffs = 0
    /\ all_rag_contexts = <<>>
    /\ combined_prompt = NoPrompt
    /\ lines = <<>>
    /\ ParseIdle
    /\ ScopeIdle
    /\ ScanIdle
    /\ DocIdle

AggNext ==
    NextDiff \/ ScanLine \/ PayloadLine \/ ParseReturn \/ CollectContexts \/ BuildPrompt

SpecAgg == AggInit /\ [][AggNext]_vars


ScopeInit ==
    /\ pc = "resolve"
    /\ source_text \in FilesUpTo(ScopeKinds, MaxFileLen) \cup {ExampleFile, NestedIfFile, AsyncFile, FunctionFile}
    /\ target_lineno \in 1..(Len(source_text) + 1)
    /\ py_chain = Unset
    /\ rx_chain = Unset
    /\ lines = <<>>
    /\ ParseIdle
    /\ AggIdle
    /\ ScanIdle
    /\ DocIdle

ScopeNext == CallPythonChain \/ CallRegexChain

SpecScope == ScopeInit /\ [][ScopeNext]_vars

ParseInit ==
    /\ pc = "parse"
    /\ lines \in SeqsUpTo(ParseAlphabet, MaxPatchLen)
    /\ ParseIdle
    /\ ScopeIdle
    /\ AggIdle
    /\ ScanIdle
    /\ DocIdle

ParseNext == ScanLine \/ PayloadLine \/ ParseReturn

SpecParse == ParseInit /\ [][ParseNext]_vars

\* the scan, the generated texts and the rendering, on every small file
ScanInit ==
    /\ pc = "scan"
    /\ tree \in ScanTrees
    /\ options = NoOptions
    /\ files_data = <<>>
    /\ llm_docs = {}
    /\ rendered = <<>>
    /\ lines = <<>>
    /\ ParseIdle
    /\ ScopeIdle
    /\ AggIdle
    /\ DocIdle

ScanNext == ScanRepo \/ GenerateLlmDocs \/ RenderFiles

SpecScan == ScanInit /\ [][ScanNext]_vars

\* invocations of generate_documentation, one after the other
DocInit ==
    /\ pc = "docs"
    /\ tree \in DocTrees
    /\ history \in PriorStores
    /\ head \in {0, 1}
    /\ docs_out = <<>>
    /\ index = {}
    /\ result = NoResult
    /\ environment = Healthy
    /\ runs = 0
    /\ options = NoOptions
    /\ files_data = <<>>
    /\ llm_docs = {}
    /\ rendered = <<>>
    /\ lines = <<>>
    /\ ParseIdle
    /\ ScopeIdle
    /\ AggIdle

DocNext == GenerateDocumentation

SpecDoc == DocInit /\ [][DocNext]_vars

(***************************************************************************)
(* app/docgen.py: the summary of a repository with many source files.     *)
(* The position is the end of the loop over files_data, with no export    *)
(* format requested, so that no per-file artifact has been written.       *)
(***************************************************************************)
MaxTouched == 102

\* the j-th path of the repository in sorted order: "m001.py", "m002.py", ...
SourcePath(j) ==
    "m" \o (IF j < 10 THEN "00" ELSE IF j < 100 THEN "0" ELSE "") \o ToString(j) \o ".py"

\* a Python file with one function
OneDefFile == <<SrcLine("def", 0, "f"), SrcLine("stmt", 1, "")>>

\* the entry of files_data for the j-th file
LargeEntry(j) ==
    FileEntry(SourcePath(j), OneDefFile, "python",
              scan_declarations(OneDefFile, "python").items,
              parse_docstrings_by_language(OneDefFile, "python"))

\* files_data after the scan of n such files
LargeScan(n) == [j \in 1..n |-> LargeEntry(j)]

\* the documents the loop over files_data renders for them
LargeRendered(n, template) ==
    [j \in 1..n |->
        LET e == LargeEntry(j)
        IN  [path |-> e.path,
             doc |-> render_markdown_for_file(e.path, e.decls, e.existing_docs, {}, template).doc]]

SummaryInit ==
    /\ pc = "rendered"
    /\ \E n \in 0..MaxTouched, t \in Templates :
         /\ tree = [p \in {SourcePath(j) : j \in 1..n} |-> OneDefFile]
         /\ options = DocOptions(t, FALSE, {}, FALSE)
         /\ files_data = LargeScan(n)
         /\ rendered = LargeRendered(n, t)
    /\ llm_docs = {}
    /\ lines = <<>>
    /\ ParseIdle
    /\ ScopeIdle
    /\ AggIdle
    /\ DocIdle

\* generate_documentation after the loop over files_data: summary.md
WriteSummary ==
    /\ pc = "rendered"
    /\ docs_out' = (SummaryKey :> Content("md", FALSE,
                        SummaryOf(options.template, Touched(files_data)))) @@ docs_out
    /\ pc' = "summarised"
    /\ UNCHANGED <<index, head, history, result, environment, runs>>
    /\ UNCHANGED <<parseVars, scopeVars, aggVars, scanVars>>

SummaryNext == WriteSummary

SpecSummary == SummaryInit /\ [][SummaryNext]_vars


(***************************************************************************)
(* C1 (as stated): after "@@ -5,3 +5,4 @@", a deletion then an addition    *)
(* give a del record numbered 5 and an add record numbered 6.              *)
(***************************************************************************)
C1_Case ==
    /\ pc = "changes"
    /\ Len(lines) >= 3
    /\ lines[1] = HunkLine(5, 5)
    /\ IsDeletion(lines[2])
    /\ IsAddition(lines[3])

C1_AsStated ==
    C1_Case => /\ Len(changes) >= 2
               /\ changes[1] = ChangeRecord("del", 5)
               /\ changes[2] = ChangeRecord("add", 6)

(***************************************************************************)
(* C1 (amended): after "@@ -5,3 +5,4 @@", a deletion then an addition give *)
(* a del record numbered 5 and an add record numbered 5: the deletion      *)
(* advances the old counter only, so the addition is still new line 5.     *)
(***************************************************************************)
C1_DelThenAdd ==
    C1_Case => /\ Len(changes) >= 2
               /\ changes[1] = ChangeRecord("del", 5)
               /\ changes[2] = ChangeRecord("add", 5)

C1_Witness == C1_Case /\ Len(lines) = 4 /\ Len(changes) = 3

(***************************************************************************)
(* C2: inside a hunk an addition line emits one add record numbered with   *)
(* the new counter and advances only the new counter; a deletion line      *)
(* emits one del record numbered with the old counter and advances only    *)
(* the old counter; any other line emits nothing and advances both.        *)
(***************************************************************************)
C2_PayloadStep ==
    [][(InInner /\ i' = i + 1) =>
        /\ IsAddition(lines[i]) =>
              /\ changes' = Append(changes, ChangeRecord("add", new_line))
              /\ new_line' = new_line + 1
              /\ old_line' = old_line
        /\ IsDeletion(lines[i]) =>
              /\ changes' = Append(changes, ChangeRecord("del", old_line))
              /\ old_line' = old_line + 1
              /\ new_line' = new_line
        /\ (~IsAddition(lines[i]) /\ ~IsDeletion(lines[i])) =>
              /\ changes' = changes
              /\ old_line' = old_line + 1
              /\ new_line' = new_line + 1]_vars

C2_Witness ==
    /\ pc = "changes"
    /\ Len(lines) = 4
    /\ HunkMatch(lines[1])
    /\ {lines[2].k, lines[3].k, lines[4].k} = {"add", "del", "plus3"}
    /\ Len(changes) = 2
    /\ old_line = lines[1].o + 2
    /\ new_line = lines[1].n + 2

(***************************************************************************)
(* C3: a diff text without any hunk header parses to the empty list, and   *)
(* the loop body adds no ContextEntry for that file.                       *)
(***************************************************************************)
NoHunkHeader(p) == \A j \in 1..Len(p) : ~HunkMatch(p[j])

C3_NoHeaderNoEntries ==
    [][(pc = "changes" /\ NoHunkHeader(lines)) =>
        (changes = <<>> /\ all_rag_contexts' = all_rag_contexts)]_vars

C3_Witness ==
    /\ pc = "changes"
    /\ ndiffs = 2
    /\ Len(lines) = 2
    /\ NoHunkHeader(lines)
    /\ \E j \in 1..2 : IsAddition(lines[j])
    /\ diff.b_path = "m.py"
    /\ changes = <<>>
    /\ Len(all_rag_contexts) = 1

(***************************************************************************)
(* C4: for a file ast.parse accepts and a line inside at least one         *)
(* declaration span, the chain is the "{kind} {name}" tokens of exactly    *)
(* the declarations whose span holds the line, outer to inner; with class  *)
(* A on 1-10 holding def b on 3-5, line 4 gives [class A, def b] and line  *)
(* 8 gives [class A].                                                      *)
(***************************************************************************)
SpanHolds(f, n, t) == f[n].k \in PyDeclKinds /\ n <= t /\ t <= EndLineno(f, n)

RECURSIVE AscendingTokens(_, _)
AscendingTokens(f, S) ==
    IF S = {} THEN <<>>
    ELSE LET n == CHOOSE x \in S : \A y \in S : x <= y
         IN  <<Token(IF f[n].k = "class" THEN "class" ELSE "def", f[n].name)>>
             \o AscendingTokens(f, S \ {n})

C4_ChainIsEnclosingDecls ==
    (pc = "resolve" /\ py_chain # Unset /\ AstParses(source_text)) =>
        LET S == {n \in 1..Len(source_text) : SpanHolds(source_text, n, target_lineno)}
        IN  /\ S # {} => py_chain = SomeChain(AscendingTokens(source_text, S))
            /\ (source_text = ExampleFile /\ target_lineno = 4) =>
                  py_chain.chain = <<Token("class", "A"), Token("def", "b")>>
            /\ (source_text = ExampleFile /\ target_lineno = 8) =>
                  py_chain.chain = <<Token("class", "A")>>

C4_Witness ==
    /\ pc = "resolve"
    /\ source_text = NestedIfFile
    /\ target_lineno = 4
    /\ py_chain = SomeChain(<<Token("class", "A"), Token("def", "c")>>)

(***************************************************************************)
(* C5 (as stated): in a file ast.parse accepts, a line inside no           *)
(* declaration span resolves to the empty ("module") chain, from           *)
(* find_enclosing_python_chain and in the ContextEntry of a change on it.  *)
(***************************************************************************)
C5_ModuleLineIsModule ==
    \A n \in 1..Len(all_rag_contexts) :
        LET e == all_rag_contexts[n]
            f == repo_files[e.file_path][e.ref].text
        IN  (/\ EndsWithPy(e.file_path)
             /\ AstParses(f)
             /\ e.lineno \in 1..Len(f)
             /\ \A m \in 1..Len(f) : ~SpanHolds(f, m, e.lineno))
            => /\ find_enclosing_python_chain(f, e.lineno) = SomeChain(<<>>)
               /\ e.enclosing_chain = <<>>

(***************************************************************************)
(* Repeated invocations (SpecDoc)                                          *)
(***************************************************************************)
\* the step is an invocation of generate_documentation that returned
Completes == runs' = runs + 1 /\ result'.status = "returned"

\* the history afterwards is the history before with one entry at its end
OneEntryAppended ==
    /\ history'.kind = "object"
    /\ Len(history'.entries) = Len(history.entries) + 1
    /\ SubSeq(history'.entries, 1, Len(history.entries)) = history.entries

\* C6: an invocation that repeats the options of the invocation before it,
\* with generation disabled and the working tree as it was, renders the same
\* per-file documents as that invocation did and appends exactly one entry to
\* the history.
C6_Idempotent ==
    [][(/\ result.status = "returned"
        /\ Completes
        /\ options' = options
        /\ ~options.use_llm)
       => (rendered' = rendered /\ OneEntryAppended)]_vars

\* C8: whatever the history store held before, an invocation that completes
\* leaves its entries as they were, in their order, and one new entry after
\* them.
C8_AppendOnly ==
    [][Completes => OneEntryAppended]_vars

(***************************************************************************)
(* The rendering of declarations (SpecScan)                                *)
(***************************************************************************)
\* what a reader of the document finds in its section headers, in order
SectionHeaders(doc) ==
    LET IsHeader(l) == l.t = "h3"
        hs == SelectSeq(doc, IsHeader)
    IN  [j \in 1..Len(hs) |-> <<hs[j].kind, hs[j].name, hs[j].start, hs[j].end>>]

\* the declarations as tuples, an unknown end counting as the start
DeclTuples(decls) ==
    [j \in 1..Len(decls) |->
        <<decls[j].type, decls[j].name, decls[j].lineno,
          IF decls[j].end_lineno = None THEN decls[j].lineno ELSE decls[j].end_lineno>>]

RenderKey(d) ==
    DocKey(d.type, d.name, d.lineno,
           IF d.end_lineno = None THEN d.lineno ELSE d.end_lineno)

HasExisting(e, d) == \E r \in e.existing_docs : r.key = RenderKey(d)
HasGenerated(e, d) ==
    \E g \in llm_docs : g.key = <<e.path, d.type, d.name>> /\ g.val # ""

\* the body line of the k-th section of a document
BodyOf(doc, k) == doc[2 + 2 * k].text

\* C9: the body of every rendered section is the text of the existing
\* DocRecord whose key is exactly the declaration's (kind, name, start, end);
\* failing that the generated text keyed by (file, kind, name); failing that
\* the fixed placeholder.  With generation disabled the body is the existing
\* text of a documented declaration and the placeholder of an undocumented one.
C9_BodyProvenance ==
    \A j \in 1..Len(rendered) : \A k \in 1..Len(files_data[j].decls) :
        LET e == files_data[j]
            d == e.decls[k]
            body == BodyOf(rendered[j].doc, k)
        IN  /\ HasExisting(e, d) =>
                  body = (CHOOSE r \in e.existing_docs : r.key = RenderKey(d)).doc
            /\ ~HasExisting(e, d) /\ HasGenerated(e, d) =>
                  body = Strip((CHOOSE g \in llm_docs :
                                   g.key = <<e.path, d.type, d.name>>).val)
            /\ ~HasExisting(e, d) /\ ~HasGenerated(e, d) => body = Placeholder
            /\ ~options.use_llm /\ ~HasExisting(e, d) => body = Placeholder

\* a rendered declaration that has both an existing record and a generated text
C9_Witness ==
    /\ pc = "rendered"
    /\ \E j \in 1..Len(rendered) : \E k \in 1..Len(files_data[j].decls) :
          /\ HasExisting(files_data[j], files_data[j].decls[k])
          /\ HasGenerated(files_data[j], files_data[j].decls[k])
          /\ BodyOf(rendered[j].doc, k) = "Adds two numbers."

Languages == {"python", "javascript", "unknown"}

\* C10: the declaration scanner raises for no text and no language tag; for
\* an empty text it returns the empty sequence; for a text the structural
\* parser rejects it returns the empty sequence, and the scan goes on to the
\* other files of the repository.
C10_ScannerNeverRaises ==
    /\ pc # "scan raised"
    /\ \A p \in DOMAIN tree : \A lang \in Languages :
          LET scan == scan_declarations(tree[p], lang)
          IN  /\ ~scan.raised
              /\ tree[p] = <<>> => scan.items = <<>>
              /\ lang = "python" /\ ~AstParses(tree[p]) => scan.items = <<>>
    /\ pc \in {"generate", "render", "rendered", "render raised"} =>
          \E j \in 1..Len(files_data) :
              /\ files_data[j].path = "b.js"
              /\ Len(files_data[j].decls) = 2

\* the scan is over; the parser rejected a.py, and b.js was still scanned
C10_Witness ==
    /\ pc = "generate"
    /\ "a.py" \in DOMAIN tree
    /\ tree["a.py"] # <<>>
    /\ ~AstParses(tree["a.py"])
    /\ \A j \in 1..Len(files_data) : files_data[j].path # "a.py"
    /\ \E j \in 1..Len(files_data) : files_data[j].path = "b.js"

(***************************************************************************)
(* The order of declarations and sections (SpecScan)                       *)
(***************************************************************************)
\* the start lines of a declaration list strictly ascend
Ascending(decls) ==
    \A j \in 1..Len(decls) : \A k \in (j + 1)..Len(decls) :
        decls[j].lineno < decls[k].lineno

\* the start lines in the section headers of a document, in order
SectionStarts(doc) ==
    LET hs == SectionHeaders(doc) IN [j \in 1..Len(hs) |-> hs[j][3]]

\* C11: for every text, the declarations the structural scanner returns and
\* the declarations the heuristic scanner returns are in ascending order of
\* their start line, and the sections of every rendered document follow the
\* declarations of its file in that order.
C11_AscendingOrder ==
    /\ \A p \in DOMAIN tree : \A lang \in Languages :
          Ascending(scan_declarations(tree[p], lang).items)
    /\ \A j \in 1..Len(files_data) : Ascending(files_data[j].decls)
    /\ \A j \in 1..Len(rendered) :
          SectionStarts(rendered[j].doc)
              = [k \in 1..Len(files_data[j].decls) |-> files_data[j].decls[k].lineno]

\* the document of a python file in which a nested declaration comes before
\* a top-level one, so that ast.walk reaches them out of line order
C11_Witness ==
    /\ pc = "rendered"
    /\ "a.py" \in DOMAIN tree
    /\ tree["a.py"] = NestedThenTopFile
    /\ \E j \in 1..Len(rendered) :
          /\ rendered[j].path = "a.py"
          /\ SectionStarts(rendered[j].doc) = <<1, 2, 4>>

(***************************************************************************)
(* The comments the extractors attach (SpecScan)                           *)
(***************************************************************************)
\* line m of text holds a comment with this doc, at most one line away from
\* the line before the declaration on line n
AdjacentComment(text, n, doc) ==
    \E m \in {n - 1, n - 2} \cap (1..Len(text)) :
        text[m].k = "jsdoc" /\ text[m].name = doc

\* C12: every DocRecord a comment extractor returns for a declaration holds
\* the text of a comment directly before the declaration line, at most one
\* line in between; a declaration with no such comment gets no DocRecord.
C12_OnlyAdjacentComments ==
    \A j \in 1..Len(files_data) :
        files_data[j].language = "javascript" =>
            \A r \in files_data[j].existing_docs :
                AdjacentComment(files_data[j].text, r.key[2], r.doc)

(***************************************************************************)
(* Output routing and version control (SpecDoc)                            *)
(***************************************************************************)
\* the step is an invocation of generate_documentation on the repository
Invocation == runs' = runs + 1 /\ result'.error \notin {"FileNotFoundError", "NoSuchPathError"}

\* the files of one directory under docs/
Area(out, dir) == [key \in {q \in DOMAIN out : q[1] = dir} |-> out[key]]

\* C13: an invocation with manual_override set leaves every file of
\* docs/files as it was, writes the exports of every documented file under
\* docs/drafts, stages nothing, commits nothing and reports no commit.
C13_OverrideWritesDraftsOnly ==
    [][(Invocation /\ options'.manual_override)
       => /\ Area(docs_out', "files") = Area(docs_out, "files")
          /\ index' = index
          /\ head' = head
          /\ result'.linked_commit = None
          /\ result'.status = "returned" =>
                \A j \in 1..Len(rendered') :
                    \A fmt \in options'.export_formats \cap {"md", "html"} :
                        LET key  == <<"drafts", Stem(rendered'[j].path), fmt>>
                            last == CHOOSE k \in j..Len(rendered') :
                                       /\ Stem(rendered'[k].path) = key[2]
                                       /\ \A q \in (k + 1)..Len(rendered') :
                                              Stem(rendered'[q].path) # key[2]
                        IN  /\ key \in DOMAIN docs_out'
                            /\ docs_out'[key].doc = rendered'[last].doc]_vars

\* an override run that returned, after a canonical run had filled docs/files
C13_Witness ==
    /\ runs = 2
    /\ options.manual_override
    /\ result.status = "returned"
    /\ Len(rendered) >= 1
    /\ \E key \in DOMAIN docs_out : key[1] = "files" /\ key[3] = "html"
    /\ \E key \in DOMAIN docs_out : key[1] = "drafts" /\ key[3] = "html"
    /\ index # {}

\* the invocation got as far as writing its history entry
HistoryWritten == history' # history /\ history'.kind = "object"

\* C14: in canonical mode, when staging the output paths or creating the
\* commit fails, the invocation still returns its result, with linked_commit
\* None, and the documents, the summary and the history entry it wrote stay.
C14_WriteBackNeverRaises ==
    [][(/\ Invocation
        /\ ~options'.manual_override
        /\ environment'.git \in {"add fails", "commit fails"}
        /\ HistoryWritten)
       => /\ result'.status = "returned"
          /\ result'.linked_commit = None
          /\ SummaryKey \in DOMAIN docs_out']_vars

\* C15: whatever a text-generation call comes back with (an error status, a
\* response that does not parse, values that are no text), the invocation
\* returns, every scanned file is rendered and written, and a declaration
\* with neither an existing nor a generated text shows the placeholder.
C15_GenerationNeverAborts ==
    [][(/\ Invocation
        /\ options'.use_llm
        /\ environment'.write = "ok"
        /\ environment'.git = "ok"
        /\ history.kind # "other")
       => /\ result'.status = "returned"
          /\ Len(rendered') = Len(files_data')
          /\ \A j \in 1..Len(rendered') :
                <<OutDir(options'), Stem(rendered'[j].path), "md">> \in DOMAIN docs_out'
          /\ environment'.llm = "error" =>
                \A j \in 1..Len(rendered') : \A k \in 1..Len(files_data'[j].decls) :
                    \/ \E r \in files_data'[j].existing_docs :
                          r.key = RenderKey(files_data'[j].decls[k])
                    \/ BodyOf(rendered'[j].doc, k) = Placeholder]_vars

(***************************************************************************)
(* Failures of one invocation (SpecDoc)                                    *)
(***************************************************************************)
\* C16: an invocation on a path that does not exist or is no repository
\* raises to its caller and leaves the files under docs/, the history, the
\* index and the commits as they were.
C16_BadPathChangesNothing ==
    [][(runs' = runs + 1 /\ environment'.repo_path # "repo")
       => /\ result'.status = "raised"
          /\ result'.error \in {"FileNotFoundError", "NoSuchPathError"}
          /\ UNCHANGED <<docs_out, history, index, head>>]_vars

\* a refused invocation after one that had written documents and a commit
C16_Witness ==
    /\ runs = 2
    /\ environment.repo_path = "no such path"
    /\ result.status = "raised"
    /\ head >= 1
    /\ history.kind = "object"
    /\ \E key \in DOMAIN docs_out : key[1] = "files"

\* the export format whose write fails in this environment, if any
FailingFormats(env) ==
    (IF env.write = "md fails" THEN {"md"} ELSE {}) \cup
    (IF env.write = "html fails" THEN {"html"} ELSE {}) \cup
    (IF env.pdf # "ok" THEN {"pdf"} ELSE {})

\* C17: when the write of one export format fails, the invocation still
\* returns, and every scanned file has each of its other requested formats
\* written.
C17_WriteFailureConfined ==
    [][(/\ Invocation /\ ~options'.use_llm /\ environment'.git = "ok"
        /\ history.kind # "other"
        /\ FailingFormats(environment') \cap options'.export_formats # {})
       => /\ result'.status = "returned"
          /\ \A j \in 1..Len(files_data') :
                \A fmt \in options'.export_formats \ FailingFormats(environment') :
                   <<OutDir(options'), Stem(files_data'[j].path), fmt>> \in DOMAIN docs_out']_vars

(***************************************************************************)
(* The empty chain (SpecScope)                                             *)
(***************************************************************************)
\* line t of f lies inside a declaration of f
InsideDeclaration(f, t) ==
    \E n \in 1..Len(f) :
        /\ f[n].k \in PyDeclKinds \cup {"function"}
        /\ n <= t /\ t <= EndLineno(f, n)

\* C18: when the chain of a change is empty ("module"), its line lies inside
\* no declaration of the file, both for a file resolved by the heuristic
\* alone and for a Python file resolved by the syntax tree with the
\* heuristic as its fallback.
C18_EmptyChainIsModuleLevel ==
    (pc = "resolve" /\ py_chain # Unset /\ rx_chain # Unset) =>
        LET python == IF py_chain.none THEN rx_chain.chain ELSE py_chain.chain
        IN  /\ rx_chain.chain = <<>> => ~InsideDeclaration(source_text, target_lineno)
            /\ python = <<>> => ~InsideDeclaration(source_text, target_lineno)

\* C19: a failed text-generation call shows in the result: an invocation in
\* which the call fails does not return the result that the invocation
\* before it, with the same options and the call succeeding, returned.
C19_LlmFailureObservable ==
    [][(/\ Invocation /\ runs = 1
        /\ options' = options /\ options.use_llm
        /\ environment.llm = "qualified" /\ llm_docs # {}
        /\ environment' = [environment EXCEPT !.llm = "error"]
        /\ result.status = "returned" /\ result'.status = "returned")
       => result' # result]_vars

(***************************************************************************)
(* The repository summary (SpecSummary)                                    *)
(***************************************************************************)
SummaryLines(t) ==
    SelectSeq(docs_out[SummaryKey].doc, LAMBDA l : l.t = t)

\* C20: the summary lists the first min(n, 100) of the n touched files in
\* processing order, has a remainder line stating n - 100 exactly when
\* n > 100, and states n as the total.
C20_SummaryTruncation ==
    pc = "summarised" =>
        LET n == Len(files_data)
            items == SummaryLines("item")
            more == SummaryLines("more")
            count == SummaryLines("count")
        IN  /\ Len(items) = (IF n <= 100 THEN n ELSE 100)
            /\ \A j \in 1..Len(items) : items[j].text = files_data[j].path
            /\ Len(more) = (IF n > 100 THEN 1 ELSE 0)
            /\ n > 100 => more[1].start = n - 100
            /\ Len(count) = 1 /\ count[1].start = n

\* 102 touched files: 100 listed, "and 2 more"
C20_Witness ==
    /\ pc = "summarised"
    /\ Len(files_data) = 102
    /\ Len(SummaryLines("item")) = 100
    /\ SummaryLines("item")[100].text = "m100.py"
    /\ SummaryLines("more") = <<DocLine("more", "", "", 2, 0, "")>>

(***************************************************************************)
(* The entries of the aggregator (SpecAgg)                                 *)
(***************************************************************************)
\* commit.diff(parent): the a side of each diff is the head commit and the
\* b side its parent, so that the patch leads from the commit to the parent
ASide == "commit"
BSide == "parent"

\* the revision in whose file a record's line number counts: hunk_re's
\* group 3 and the "+" lines count on the b side, group 1 and the "-" lines
\* on the a side
AxisRevision(type) == IF type = "add" THEN BSide ELSE ASide

\* the path of the diff on that side
AxisPath(d, type) == IF type = "add" THEN d.b_path ELSE d.a_path

\* the entries the loop body appended for the diff it was at
NewEntries ==
    SubSeq(all_rag_contexts', Len(all_rag_contexts) + 1, Len(all_rag_contexts'))

\* C21: every entry inspects the file version its record refers to, an
\* addition the version of the diff's new side at that side's path and a
\* deletion the version of the old side at the old path; snippet and chain
\* are computed from the text of that one version; and a record whose path
\* is absent gives no entry.
C21_InspectedVersion ==
    [][(pc = "changes" /\ pc' = "loop") =>
        /\ \A n \in 1..Len(NewEntries) :
             LET e == NewEntries[n]
                 f == load_file_at_commit(e.file_path, e.ref)
             IN  /\ e.file_path = AxisPath(diff, e.change_type)
                 /\ e.file_path # NoPath
                 /\ f.exists
                 /\ e.context = ContextSnippet(f.text, e.lineno)
                 /\ e.enclosing_chain = EnclosingChain(e.file_path, f.text, e.lineno)
                 /\ e.ref = AxisRevision(e.change_type)]_vars

\* lines from..to of the file text f
LinesOf(f, from, to) == [j \in 1..(to - from + 1) |-> f[from + j - 1]]

\* C22: for a change on line n of a file of L lines, 1 <= n <= L, the
\* snippet of its entry is lines max(1, n-2) .. min(L, n+2) of the inspected
\* version: line n, at most 2 lines before and 2 after, none outside the file.
C22_SnippetWindow ==
    \A k \in 1..Len(all_rag_contexts) :
        LET e == all_rag_contexts[k]
            f == repo_files[e.file_path][e.ref].text
            n == e.lineno
            L == Len(f)
        IN  (1 <= n /\ n <= L) =>
               /\ e.context = LinesOf(f, IF n - 2 >= 1 THEN n - 2 ELSE 1,
                                         IF n + 2 <= L THEN n + 2 ELSE L)
               /\ Len(e.context) <= 5

\* a change on line 4 of a file of 7 lines: the snippet is lines 2..6
C22_Witness ==
    \E k \in 1..Len(all_rag_contexts) :
        LET e == all_rag_contexts[k]
        IN  /\ e.lineno = 4
            /\ repo_files[e.file_path][e.ref].text = LongFile
            /\ e.context = LinesOf(LongFile, 2, 6)

\* the loop body reaches the append for record ch of diff d
NotSkipped(d, ch) ==
    LET path == IF ch.type = "add" THEN d.b_path ELSE d.a_path
        ref == IF ch.type = "add" THEN "commit" ELSE "parent"
    IN  IF path = NoPath THEN FALSE ELSE load_file_at_commit(path, ref).exists

\* C23: the entries are the change records that were not skipped, one entry
\* for each, the diffs in the order the loop took them and the records of a
\* diff in the order parse_patch_for_changes emitted them; the aggregated
\* prompt numbers their blocks 1..N in that order.
C23_EntryOrder ==
    [][/\ (pc = "changes" /\ pc' = "loop") =>
            LET kept == SelectSeq(changes, LAMBDA ch : NotSkipped(diff, ch))
            IN  /\ SubSeq(all_rag_contexts', 1, Len(all_rag_contexts)) = all_rag_contexts
                /\ Len(NewEntries) = Len(kept)
                /\ \A n \in 1..Len(kept) :
                      /\ NewEntries[n].change_type = kept[n].type
                      /\ NewEntries[n].lineno = kept[n].lineno
                      /\ NewEntries[n].file_path \in {diff.a_path, diff.b_path}
       /\ (pc = "loop" /\ pc' = "done" /\ all_rag_contexts # <<>>) =>
            /\ Len(combined_prompt') = Len(all_rag_contexts)
            /\ \A n \in 1..Len(all_rag_contexts) :
                  /\ combined_prompt'[n].number = n
                  /\ combined_prompt'[n].entry = all_rag_contexts[n]]_vars

\* two diffs, the first of m.py with two records and the second of n.js
\* with two records of which the deletion was skipped: blocks 1, 2, 3
C23_Witness ==
    /\ pc = "done"
    /\ ndiffs = 2
    /\ Len(combined_prompt) = 3
    /\ combined_prompt[3].number = 3
    /\ all_rag_contexts[1].file_path = "m.py"
    /\ all_rag_contexts[1].change_type = "del"
    /\ all_rag_contexts[2].file_path = "m.py"
    /\ all_rag_contexts[2].change_type = "add"
    /\ all_rag_contexts[3].file_path = "n.js"
    /\ ~repo_files["n.js"]["parent"].exists

(***************************************************************************)
(* The resolvers (SpecScope)                                               *)
(***************************************************************************)
\* the declaration line whose token ends the chain c of file f
SelectedLine(f, c) ==
    CHOOSE n \in 1..Len(f) :
        /\ f[n].k \in PyDeclKinds
        /\ c[Len(c)] = Token(IF f[n].k = "class" THEN "class" ELSE "def", f[n].name)

RegexDeclLines(f, t) == {n \in 1..Len(f) : n <= t /\ RegexDecl(f[n])}

\* those of them that are less indented than every later one
KeptLines(f, t) ==
    {n \in RegexDeclLines(f, t) :
        \A later \in RegexDeclLines(f, t) : later > n => f[n].ind < f[later].ind}

\* what the claim says of the chain returned for line t of f
HeuristicChainOf(f, t, chain) ==
    LET D == RegexDeclLines(f, t)
        K == KeptLines(f, t)
    IN  /\ chain = AscendingTokens(f, K)
        /\ \A a \in K, b \in K : a < b => f[a].ind < f[b].ind
        /\ D # {} => (\E n \in K : \A d \in D : d <= n)
        /\ chain = <<>> => D = {}

\* C25 (as stated): for every target line, the chain of the heuristic
\* resolver holds the declarations at or before the line that are less
\* indented than every later one, so it has strictly increasing indentation
\* from outer to inner, ends with the last declaration at or before the
\* line, and is empty only when no declaration starts at or before the line.
C25_AsStated ==
    (pc = "resolve" /\ rx_chain # Unset) =>
        HeuristicChainOf(source_text, target_lineno, rx_chain.chain)

\* C25 (amended): the same for a target line within the file; for a target
\* line outside the file the chain is empty whatever the file declares.
C25_HeuristicChain ==
    (pc = "resolve" /\ rx_chain # Unset) =>
        IF 1 <= target_lineno /\ target_lineno <= Len(source_text)
        THEN HeuristicChainOf(source_text, target_lineno, rx_chain.chain)
        ELSE rx_chain.chain = <<>>

\* class A, def b and def c equally indented below it, line 3: def b is
\* dropped and the chain is [class A, def c]
C25_Witness ==
    /\ pc = "resolve"
    /\ Len(source_text) = 3
    /\ source_text[1] = SrcLine("class", 0, "A")
    /\ source_text[2] = SrcLine("def", 1, "b")
    /\ source_text[3] = SrcLine("def", 1, "c")
    /\ target_lineno = 3
    /\ rx_chain = SomeChain(<<Token("class", "A"), Token("def", "c")>>)

(***************************************************************************)
(* Header lines and hunks (SpecParse)                                      *)
(***************************************************************************)
\* the line begins with "+++" or "---"
FileHeaderLine(l) == l.k \in {"plus3", "minus3"}

\* C26: a line beginning with "+++" or "---" emits no record and leaves
\* both counters as they were, inside a hunk as well as outside.
C26_HeaderLineSkipped ==
    [][(/\ pc = "parse" /\ i <= Len(lines) /\ i' = i + 1
        /\ FileHeaderLine(lines[i]))
       => /\ changes' = changes
          /\ old_line' = old_line
          /\ new_line' = new_line]_vars

\* the last line before line j that begins with "@@ "; 0 if there is none
HeaderBefore(j) ==
    IF \E h \in 1..(j - 1) : StartsAtAt(lines[h])
    THEN CHOOSE h \in 1..(j - 1) :
            StartsAtAt(lines[h]) /\ \A m \in (h + 1)..(j - 1) : ~StartsAtAt(lines[m])
    ELSE 0

\* line j is an addition or a deletion in the payload of a hunk
RecordLine(j) ==
    /\ IsAddition(lines[j]) \/ IsDeletion(lines[j])
    /\ HeaderBefore(j) # 0
    /\ HunkMatch(lines[HeaderBefore(j)])

\* its line number, from the header of its hunk and the payload before it
LinenoFromHunk(j) ==
    LET h == HeaderBefore(j)
    IN  IF IsAddition(lines[j])
        THEN lines[h].n + Cardinality({m \in (h + 1)..(j - 1) : ~IsDeletion(lines[m])})
        ELSE lines[h].o + Cardinality({m \in (h + 1)..(j - 1) : ~IsAddition(lines[m])})

\* C27: every hunk header sets both counters to its own oldStart and
\* newStart, and the records of a hunk are numbered from its header and its
\* payload alone, whatever earlier hunks or lines between hunks hold.
C27_CountersResetPerHunk ==
    /\ (pc = "parse" /\ in_hunk /\ i > 1 /\ HunkMatch(lines[i - 1])) =>
          (old_line = lines[i - 1].o /\ new_line = lines[i - 1].n)
    /\ pc = "changes" =>
          LET at == SelectSeq([j \in 1..Len(lines) |-> j], RecordLine)
          IN  changes = [k \in 1..Len(at) |->
                           ChangeRecord(IF IsAddition(lines[at[k]]) THEN "add" ELSE "del",
                                        LinenoFromHunk(at[k]))]

\* two hunks: a deletion under -5 +5, then an addition under -1 +2
C27_Witness ==
    /\ pc = "changes"
    /\ lines = <<HunkLine(5, 5), PlainLine("del"), HunkLine(1, 2), PlainLine("add")>>
    /\ changes = <<ChangeRecord("del", 5), ChangeRecord("add", 2)>>

(***************************************************************************)
(* Generated text (SpecScan)                                               *)
(***************************************************************************)
\* the body is the text of a response entry whose key is a bare name
FromBareName(body) == body = Strip(" Generated by name. ")

\* C28: generated text reaches a declaration through a kind-qualified key
\* only: of two declarations of one file that share a name and differ in
\* kind, none is documented by a response entry keyed by the bare name, and
\* the text of one response entry is never the body of both.
C28_KindQualifiedOnly ==
    pc = "rendered" =>
        \A j \in 1..Len(rendered) :
            \A a \in 1..Len(files_data[j].decls), b \in 1..Len(files_data[j].decls) :
                LET da == files_data[j].decls[a]
                    db == files_data[j].decls[b]
                IN  (da.name = db.name /\ da.type # db.type) =>
                        ~(/\ FromBareName(BodyOf(rendered[j].doc, a))
                          /\ FromBareName(BodyOf(rendered[j].doc, b)))

\* declaration d of file entry e is in the request of that file
SentForGeneration(e, d) ==
    \E m \in 1..Len(MissingItems(e)) : MissingItems(e)[m] = d

\* C29: with generation enabled, a declaration is sent for generation if
\* and only if rendering finds no existing DocRecord for it, whether its end
\* line is known or not.
C29_ExactlyUndocumentedSent ==
    (pc \in {"render", "rendered", "render raised"} /\ options.use_llm) =>
        \A j \in 1..Len(files_data) : \A k \in 1..Len(files_data[j].decls) :
            LET e == files_data[j]
                d == e.decls[k]
            IN  SentForGeneration(e, d) <=> ~HasExisting(e, d)

(***************************************************************************)
(* Staging and commit (SpecDoc)                                            *)
(***************************************************************************)
\* the paths under docs/ that the result of the invocation reports, with
\* the summary and the history
ReportedPaths(res) ==
    {<<"files", Stem(p[1]), p[2]>> : p \in res.outputs} \cup {SummaryKey, HistoryKey}

\* the last document rendered for the stem of the j-th
LastOfStem(docs, j) ==
    CHOOSE k \in j..Len(docs) :
        /\ Stem(docs[k].path) = Stem(docs[j].path)
        /\ \A q \in (k + 1)..Len(docs) : Stem(docs[q].path) # Stem(docs[j].path)

\* C30: a canonical invocation makes at most one commit; it stages and
\* commits only when every per-file export, the summary and its history
\* entry have been written; and it stages exactly the exports it wrote, the
\* summary and the history.
C30_StageAfterWriting ==
    [][(Invocation /\ ~options'.manual_override)
       => /\ head' \in {head, head + 1}
          /\ (index' # index \/ head' # head) =>
                /\ result'.status = "returned"
                /\ Len(rendered') = Len(files_data')
                /\ \A j \in 1..Len(rendered') :
                      /\ \A fmt \in options'.export_formats \cap {"md", "html"} :
                            <<rendered'[j].path, fmt>> \in result'.outputs
                      /\ \A fmt \in {"md", "html", "pdf"} :
                            <<rendered'[j].path, fmt>> \in result'.outputs =>
                               LET key == <<"files", Stem(rendered'[j].path), fmt>>
                               IN  /\ key \in DOMAIN docs_out'
                                   /\ docs_out'[key].doc =
                                         rendered'[LastOfStem(rendered', j)].doc
                /\ SummaryKey \in DOMAIN docs_out'
                /\ history'.kind = "object"
                /\ history'.entries # <<>>
                /\ history'.entries[Len(history'.entries)] =
                      HistoryEntry(IF head = 0 THEN None ELSE head, options',
                                   result'.changed)
          /\ result'.status = "returned" =>
                /\ index' = index \cup ReportedPaths(result')
                /\ ReportedPaths(result') \ {HistoryKey} \subseteq DOMAIN docs_out'
          /\ result'.status = "raised" => (index' = index /\ head' = head)]_vars

\* a canonical run whose pdf export failed: one commit, md staged, neither a
\* pdf nor the temporary html staged
C30_Witness ==
    /\ runs >= 1
    /\ ~options.manual_override
    /\ "pdf" \in options.export_formats
    /\ environment.pdf = "fails"
    /\ result.status = "returned"
    /\ result.linked_commit = head
    /\ \E key \in index : key[1] = "files" /\ key[3] = "md"
    /\ \A key \in index : key[3] \notin {"pdf", "tmp.html"}
    /\ \E key \in DOMAIN docs_out : key[3] = "tmp.html"
    /\ {SummaryKey, HistoryKey} \subseteq index

====
